---- MODULE Spec2Model ----
(***************************************************************************)
(* Model of the Telepush client (src/src/index.ts): the constructor, and   *)
(* push() as the asynchronous function it is: a synchronous prefix         *)
(* (validation, payload, timer, fetch), the two suspension points          *)
(* (await fetch, await response.json()) and the catch/finally epilogue.    *)
(*                                                                         *)
(* An optional value (a TypeScript `x?: T`) is a set: {} when absent,      *)
(* {v} when present.  A text is a sequence of characters.                  *)
(***************************************************************************)
EXTENDS Integers, Sequences, FiniteSets, TLC

\* ------------------------------------------------------------------ bounds
\* Number of push() calls that may be in flight on the one client.
MaxCalls == 2
\* Longest text handed to push() where every text is tried.
MaxLen == 2

Calls == 1..MaxCalls

\* ------------------------------------------------------------- value sets
Some(S) == CHOOSE x \in S : TRUE

WhiteSpace == {" ", "\t"}
Chars == WhiteSpace \cup {"a"}

RECURSIVE SeqsUpTo(_, _)
SeqsUpTo(S, n) ==
  IF n = 0 THEN {<<>>}
  ELSE LET shorter == SeqsUpTo(S, n - 1)
       IN shorter \cup {Append(s, x) : s \in {t \in shorter : Len(t) = n - 1}, x \in S}

\* ------------------------------------------------------------ TelepushError
\* An error value: tp is `instanceof TelepushError`, isError is `instanceof
\* Error`, status and code are the optional fields of TelepushError.
TelepushError(message, status, code) ==
  [tp |-> TRUE, isError |-> TRUE, name |-> "TelepushError",
   message |-> message, status |-> status, code |-> code]

\* What the transport (fetch, response.json()) can reject with.
ForeignError(isError, name, message) ==
  [tp |-> FALSE, isError |-> isError, name |-> name,
   message |-> message, status |-> {}, code |-> {}]

AbortError == ForeignError(TRUE, "AbortError", "This operation was aborted")

\* ------------------------------------------------------------- constructor
\* !config?.botToken : absent or the empty string.
TokenMissing(config) == config.botToken = {} \/ Some(config.botToken) = ""

\* config?.chatId === undefined || === null || === ""
ChatIdMissing(config) ==
  \/ config.chatId.kind = "undefined"
  \/ config.chatId.kind = "null"
  \/ (config.chatId.kind = "string" /\ config.chatId.s = "")

\* .replace(/\/$/, "") : one trailing slash is removed.
StripTrailingSlash(u) ==
  IF Len(u) > 0 /\ u[Len(u)] = "/" THEN SubSeq(u, 1, Len(u) - 1) ELSE u

DefaultBaseUrl == <<"t">>

\* The validation of the constructor: the error it throws, {} when none.
ConfigErrorFalsyChatId(config) ==
  IF TokenMissing(config) THEN {TelepushError("botToken is required", {}, {})}
  ELSE IF ChatIdMissing(config)
          \/ (config.chatId.kind = "number" /\ config.chatId.n = 0)
       THEN {TelepushError("chatId is required", {}, {})}
  ELSE {}

ConfigError(config) ==
  IF TokenMissing(config) THEN {TelepushError("botToken is required", {}, {})}
  ELSE IF ChatIdMissing(config) THEN {TelepushError("chatId is required", {}, {})}
  ELSE {}

\* The fields the constructor stores.
NewClient(config) ==
  [botToken |-> Some(config.botToken),
   chatId |-> config.chatId,
   apiBaseUrl |-> StripTrailingSlash(IF config.apiBaseUrl = {} THEN DefaultBaseUrl
                                     ELSE Some(config.apiBaseUrl)),
   defaultTimeoutMs |-> config.defaultTimeoutMs]

\* ---------------------------------------------------------- push: helpers
RECURSIVE TrimStart(_)
TrimStart(s) ==
  IF s # <<>> /\ Head(s) \in WhiteSpace THEN TrimStart(Tail(s)) ELSE s

RECURSIVE TrimEnd(_)
TrimEnd(s) ==
  IF s # <<>> /\ s[Len(s)] \in WhiteSpace THEN TrimEnd(SubSeq(s, 1, Len(s) - 1)) ELSE s

\* String.prototype.trim
Trim(s) == TrimEnd(TrimStart(s))

\* !text || text.trim().length === 0
TextRejectedOnlyEmpty(text) == text = <<>>

TextRejected(text) == text = <<>> \/ Len(Trim(text)) = 0

\* The keys push() puts in the payload, and their values.
PayloadKeysTruthy(o) ==
  {"chat_id", "text"}
    \cup (IF o.parseMode # {} /\ Some(o.parseMode) # "" THEN {"parse_mode"} ELSE {})
    \cup (IF o.disableNotification # {} /\ Some(o.disableNotification)
          THEN {"disable_notification"} ELSE {})
    \cup (IF o.protectContent # {} /\ Some(o.protectContent)
          THEN {"protect_content"} ELSE {})
    \cup (IF o.replyToMessageId # {} /\ Some(o.replyToMessageId) # 0
          THEN {"reply_to_message_id"} ELSE {})
    \cup (IF o.messageThreadId # {} /\ Some(o.messageThreadId) # 0
          THEN {"message_thread_id"} ELSE {})
    \cup (IF o.disableWebPagePreview # {} /\ Some(o.disableWebPagePreview)
          THEN {"disable_web_page_preview"} ELSE {})

PayloadKeys(o) ==
  {"chat_id", "text"}
    \cup (IF o.parseMode # {} /\ Some(o.parseMode) # "" THEN {"parse_mode"} ELSE {})
    \cup (IF o.disableNotification # {} THEN {"disable_notification"} ELSE {})
    \cup (IF o.protectContent # {} THEN {"protect_content"} ELSE {})
    \cup (IF o.replyToMessageId # {} THEN {"reply_to_message_id"} ELSE {})
    \cup (IF o.messageThreadId # {} THEN {"message_thread_id"} ELSE {})
    \cup (IF o.disableWebPagePreview # {} THEN {"disable_web_page_preview"} ELSE {})

BuildPayload(chatId, text, o) ==
  [k \in PayloadKeys(o) |->
     CASE k = "chat_id" -> chatId
       [] k = "text" -> text
       [] k = "parse_mode" -> Some(o.parseMode)
       [] k = "disable_notification" -> Some(o.disableNotification)
       [] k = "protect_content" -> Some(o.protectContent)
       [] k = "reply_to_message_id" -> Some(o.replyToMessageId)
       [] k = "message_thread_id" -> Some(o.messageThreadId)
       [] k = "disable_web_page_preview" -> Some(o.disableWebPagePreview)]

\* options.timeoutMs ?? this.defaultTimeoutMs
EffectiveTimeoutOr(o, cl) ==
  IF o.timeoutMs # {} /\ Some(o.timeoutMs) # 0 THEN o.timeoutMs ELSE cl.defaultTimeoutMs

EffectiveTimeout(o, cl) ==
  IF o.timeoutMs # {} THEN o.timeoutMs ELSE cl.defaultTimeoutMs

\* if (timeoutMs && timeoutMs > 0)
ArmsTimer(t) == t # {} /\ Some(t) # 0 /\ Some(t) > 0

\* `${this.apiBaseUrl}/bot${this.botToken}/sendMessage`
Url(cl) == <<cl.apiBaseUrl, "/bot", cl.botToken, "/sendMessage">>

\* controller.abort() on the controller of call c.
AbortShared(ab, c) == [d \in DOMAIN ab |-> TRUE]

Abort(ab, c) == [ab EXCEPT ![c] = TRUE]

\* The body of try, after both awaits: the error thrown, {} when it returns.
HttpMessage(status) == "HTTP " \o ToString(status)

ResponseOk(status) == status >= 200 /\ status <= 299

ClassifyOkFirst(status, data) ==
  IF ~data.ok
    THEN {TelepushError(IF data.description # {} THEN Some(data.description)
                        ELSE "Telegram API error", {status}, data.error_code)}
  ELSE IF ~ResponseOk(status)
    THEN {TelepushError(IF data.description # {} THEN Some(data.description)
                        ELSE HttpMessage(status), {status}, data.error_code)}
  ELSE IF data.result = {}
    THEN {TelepushError("Telegram API returned no result", {status}, data.error_code)}
  ELSE {}

Classify(status, data) ==
  IF ~ResponseOk(status)
    THEN {TelepushError(IF data.description # {} THEN Some(data.description)
                        ELSE HttpMessage(status), {status}, data.error_code)}
  ELSE IF ~data.ok
    THEN {TelepushError(IF data.description # {} THEN Some(data.description)
                        ELSE "Telegram API error", {status}, data.error_code)}
  ELSE IF data.result = {}
    THEN {TelepushError("Telegram API returned no result", {status}, data.error_code)}
  ELSE {}

\* The catch block: what push() throws for the error err caught.
CatchRethrow(err) == err

Catch(err) ==
  IF err.tp THEN err
  ELSE IF err.isError /\ err.name = "AbortError"
    THEN TelepushError("Request timed out", {}, {})
  ELSE TelepushError(IF err.isError THEN err.message ELSE "Unknown error", {}, {})

\* The finally block: if (timeout) clearTimeout(timeout).
FinallyKeep(t) == t

Finally(t) == IF t = "armed" THEN "cleared" ELSE t

Thrown(err) == [kind |-> "throw", error |-> err]
Returned(value) == [kind |-> "return", value |-> value]

\* ------------------------------------------------------------------- state
VARIABLES
  cfg,        \* the config the constructor was called with: {} before the call
  client,     \* the constructed client: {} before construction, {fields} after
  ctorThrown, \* the errors the constructor has thrown
  pc,         \* per call: "idle", "fetching" (await fetch), "decoding"
              \* (await response.json()), "done"
  text,       \* per call: the text argument
  opts,       \* per call: the options argument
  requests,   \* per call: the HTTP requests issued (url, body, signal)
  timer,      \* per call: "none", "armed", "fired", "cleared"
  aborted,    \* per call: controller.signal.aborted
  transport,  \* per call, the HTTP exchange: "idle", "pending" (request sent),
              \* "responded" (headers in), "decoded" (body read), "failed"
  status,     \* per call: response.status once fetch has resolved
  data,       \* per call: the decoded body once response.json() has resolved
  caught,     \* per call: the error the catch block caught, {} when none
  outcome     \* per call: the outcomes of the call, in order

vars == <<cfg, client, ctorThrown, pc, text, opts, requests, timer, aborted,
          transport, status, data, caught, outcome>>

NoOptions ==
  [parseMode |-> {}, disableNotification |-> {}, protectContent |-> {},
   replyToMessageId |-> {}, messageThreadId |-> {},
   disableWebPagePreview |-> {}, timeoutMs |-> {}]

Init ==
  /\ cfg = {}
  /\ client = {}
  /\ ctorThrown = <<>>
  /\ pc = [c \in Calls |-> "idle"]
  /\ text = [c \in Calls |-> <<>>]
  /\ opts = [c \in Calls |-> NoOptions]
  /\ requests = [c \in Calls |-> <<>>]
  /\ timer = [c \in Calls |-> "none"]
  /\ aborted = [c \in Calls |-> FALSE]
  /\ transport = [c \in Calls |-> "idle"]
  /\ status = [c \in Calls |-> {}]
  /\ data = [c \in Calls |-> {}]
  /\ caught = [c \in Calls |-> {}]
  /\ outcome = [c \in Calls |-> <<>>]

\* ----------------------------------------------------------------- actions
\* new Telepush(config)
Construct(config) ==
  /\ cfg = {}
  /\ cfg' = {config}
  /\ IF ConfigError(config) # {}
       THEN /\ ctorThrown' = Append(ctorThrown, Some(ConfigError(config)))
            /\ client' = client
       ELSE /\ client' = {NewClient(config)}
            /\ ctorThrown' = ctorThrown
  /\ UNCHANGED <<pc, text, opts, requests, timer, aborted, transport, status, data, caught, outcome>>

\* push(t, o) up to its first await: validation, payload, timer, fetch.
Push(c, t, o) ==
  /\ client # {}
  /\ pc[c] = "idle"
  /\ text' = [text EXCEPT ![c] = t]
  /\ opts' = [opts EXCEPT ![c] = o]
  /\ IF TextRejected(t)
       THEN /\ outcome' = [outcome EXCEPT ![c] =
                 Append(@, Thrown(TelepushError("text must be a non-empty string", {}, {})))]
            /\ pc' = [pc EXCEPT ![c] = "done"]
            /\ UNCHANGED <<requests, timer, transport>>
       ELSE LET cl == Some(client)
            IN /\ timer' = [timer EXCEPT ![c] =
                    IF ArmsTimer(EffectiveTimeout(o, cl)) THEN "armed" ELSE "none"]
               /\ requests' = [requests EXCEPT ![c] =
                    Append(@, [url |-> Url(cl),
                               body |-> BuildPayload(cl.chatId, t, o),
                               signal |-> c])]
               /\ transport' = [transport EXCEPT ![c] = "pending"]
               /\ pc' = [pc EXCEPT ![c] = "fetching"]
               /\ outcome' = outcome
  /\ UNCHANGED <<cfg, client, ctorThrown, aborted, status, data, caught>>

\* The timer callback of call c: () => controller.abort().
TimerFire(c) ==
  /\ timer[c] = "armed"
  /\ timer' = [timer EXCEPT ![c] = "fired"]
  /\ aborted' = Abort(aborted, c)
  /\ UNCHANGED <<cfg, client, ctorThrown, pc, text, opts, requests, transport, status, data, caught, outcome>>

\* The end of push(): the outcome, after finally has run.
Complete(c, out) ==
  /\ outcome' = [outcome EXCEPT ![c] = Append(@, out)]
  /\ timer' = [timer EXCEPT ![c] = Finally(@)]
  /\ pc' = [pc EXCEPT ![c] = "done"]

\* The try block threw err: catch, then finally.
Fail(c, err) ==
  /\ caught' = [caught EXCEPT ![c] = {err}]
  /\ Complete(c, Thrown(Catch(err)))

\* The try block returned value: finally.
Return(c, value) ==
  /\ caught' = caught
  /\ Complete(c, Returned(value))

\* fetch resolves with a response of status st.
FetchResolve(c, st) ==
  /\ pc[c] = "fetching"
  /\ ~aborted[c]
  /\ status' = [status EXCEPT ![c] = {st}]
  /\ transport' = [transport EXCEPT ![c] = "responded"]
  /\ pc' = [pc EXCEPT ![c] = "decoding"]
  /\ UNCHANGED <<cfg, client, ctorThrown, text, opts, requests, timer, aborted, data, caught, outcome>>

\* fetch rejects: the transport failed with err.
FetchReject(c, err) ==
  /\ pc[c] = "fetching"
  /\ transport' = [transport EXCEPT ![c] = "failed"]
  /\ Fail(c, err)
  /\ UNCHANGED <<cfg, client, ctorThrown, text, opts, requests, aborted, status, data>>

\* fetch or response.json() rejects because the signal of the call is aborted.
SignalReject(c) ==
  /\ pc[c] \in {"fetching", "decoding"}
  /\ aborted[c]
  /\ Fail(c, AbortError)
  /\ UNCHANGED <<cfg, client, ctorThrown, text, opts, requests, aborted, transport, status, data>>

\* response.json() resolves with data; the rest of the try block runs.
JsonResolve(c, d) ==
  /\ pc[c] = "decoding"
  /\ ~aborted[c]
  /\ data' = [data EXCEPT ![c] = {d}]
  /\ transport' = [transport EXCEPT ![c] = "decoded"]
  /\ LET e == Classify(Some(status[c]), d)
     IN IF e # {} THEN Fail(c, Some(e)) ELSE Return(c, Some(d.result))
  /\ UNCHANGED <<cfg, client, ctorThrown, text, opts, requests, aborted, status>>

\* response.json() rejects (malformed body), or resolves with null and the
\* first property read of the try block throws a TypeError.
JsonReject(c, err) ==
  /\ pc[c] = "decoding"
  /\ transport' = [transport EXCEPT ![c] = "failed"]
  /\ Fail(c, err)
  /\ UNCHANGED <<cfg, client, ctorThrown, text, opts, requests, aborted, status, data>>

NextOver(calls, configs, texts, options, statuses, datas, fetchErrors, jsonErrors) ==
  \/ \E config \in configs : Construct(config)
  \/ \E c \in calls, t \in texts, o \in options : Push(c, t, o)
  \/ \E c \in calls : TimerFire(c)
  \/ \E c \in calls, st \in statuses : FetchResolve(c, st)
  \/ \E c \in calls, err \in fetchErrors : FetchReject(c, err)
  \/ \E c \in calls : SignalReject(c)
  \/ \E c \in calls, d \in datas : JsonResolve(c, d)
  \/ \E c \in calls, err \in jsonErrors : JsonReject(c, err)

\* ------------------------------------------------------------ input domains
ChatId(kind, str, num) == [kind |-> kind, s |-> str, n |-> num]

ChatIds ==
  {ChatId("undefined", "", 0), ChatId("null", "", 0), ChatId("string", "", 0),
   ChatId("string", "123", 0), ChatId("string", "@channel", 0),
   ChatId("number", "", 0), ChatId("number", "", 42)}

Config(token, chatId, baseUrl, defaultTimeoutMs) ==
  [botToken |-> token, chatId |-> chatId, apiBaseUrl |-> baseUrl,
   defaultTimeoutMs |-> defaultTimeoutMs]

AllConfigs ==
  {Config(token, chatId, baseUrl, dflt) :
     token \in {{}, {""}, {"token"}},
     chatId \in ChatIds,
     baseUrl \in {{}, {<<"h">>}, {<<"h", "/">>}, {<<"h", "/", "/">>}},
     dflt \in {{}, {0}, {20}}}

SmallConfigs ==
  {Config({"token"}, ChatId("string", "123", 0), {}, dflt) : dflt \in {{}, {20}}}
    \cup {Config({}, ChatId("string", "123", 0), {}, {})}

OneConfig == {Config({"token"}, ChatId("string", "123", 0), {}, {})}

AllTexts == SeqsUpTo(Chars, MaxLen)

SmallTexts == {<<" ">>, <<" ", "a">>}

OneText == {<<"a">>}

AllOptions ==
  [parseMode : {{}, {"Markdown"}, {"MarkdownV2"}, {"HTML"}},
   disableNotification : {{}, {FALSE}, {TRUE}},
   protectContent : {{}, {FALSE}, {TRUE}},
   replyToMessageId : {{}, {0}, {7}},
   messageThreadId : {{}, {0}, {3}},
   disableWebPagePreview : {{}, {FALSE}, {TRUE}},
   timeoutMs : {{}, {10}}]

TimeoutOptions ==
  {[NoOptions EXCEPT !.timeoutMs = t] : t \in {{}, {0}, {10}, {-1}}}

SmallOptions ==
  {[NoOptions EXCEPT !.timeoutMs = t] : t \in {{}, {0}, {10}}}

Message(id, date, txt) == [message_id |-> id, date |-> date, text |-> txt]

AllResults ==
  {{}} \cup {{Message(id, date, txt)} : id \in {{}, {1}}, date \in {{}, {1700}},
                                         txt \in {{}, {"hello"}}}

Data(ok, result, description, code) ==
  [ok |-> ok, result |-> result, description |-> description, error_code |-> code]

AllDatas ==
  {Data(ok, result, description, code) :
     ok \in BOOLEAN, result \in AllResults,
     description \in {{}, {""}, {"bad"}}, code \in {{}, {400}}}

SmallDatas ==
  {Data(TRUE, {Message({1}, {1700}, {"hello"})}, {}, {}),
   Data(FALSE, {}, {"bad"}, {400}),
   Data(TRUE, {}, {}, {})}

AllStatuses == {199, 200, 299, 300, 400}

SmallStatuses == {200, 400}

FetchErrors ==
  {ForeignError(TRUE, "TypeError", "fetch failed"),
   ForeignError(TRUE, "AbortError", "The operation was aborted"),
   ForeignError(FALSE, "", "")}

JsonErrors ==
  {ForeignError(TRUE, "SyntaxError", "Unexpected token"),
   ForeignError(TRUE, "TypeError", "Cannot read properties of null")}

\* ----------------------------------------------------------- specifications
\* Concurrent calls on one client.
Next ==
  NextOver(Calls, SmallConfigs, SmallTexts, SmallOptions, SmallStatuses,
           SmallDatas, FetchErrors, JsonErrors)

Spec == Init /\ [][Next]_vars

\* Concurrent calls under the scheduling the runtime gives: an armed timer
\* fires once due, and an aborted signal rejects the pending fetch or body
\* read.
NextFair ==
  NextOver(Calls, SmallConfigs, SmallTexts, SmallOptions, {200},
           SmallDatas, FetchErrors, {ForeignError(TRUE, "SyntaxError", "Unexpected token")})

FairSpec ==
  /\ Init
  /\ [][NextFair]_vars
  /\ \A c \in Calls : WF_vars(TimerFire(c)) /\ WF_vars(SignalReject(c))

\* One call, every configuration.
NextCtor ==
  NextOver({1}, AllConfigs, SmallTexts, TimeoutOptions, SmallStatuses,
           SmallDatas, FetchErrors, JsonErrors)

SpecCtor == Init /\ [][NextCtor]_vars

\* Two calls, every text.
NextText ==
  NextOver({1, 2}, OneConfig, AllTexts, SmallOptions, {200},
           SmallDatas, FetchErrors, JsonErrors)

SpecText == Init /\ [][NextText]_vars

\* One call, every combination of options.
NextPayload ==
  NextOver({1}, OneConfig, SmallTexts, AllOptions, {200},
           SmallDatas, FetchErrors, JsonErrors)

SpecPayload == Init /\ [][NextPayload]_vars

\* One call, every response.
NextResponse ==
  NextOver({1}, OneConfig, OneText, SmallOptions, AllStatuses,
           AllDatas, FetchErrors, JsonErrors)

SpecResponse == Init /\ [][NextResponse]_vars

\* ------------------------------------------------------------------ claims
TimedOut == TelepushError("Request timed out", {}, {})

IsValidationError(e) == e.tp /\ e.status = {} /\ e.code = {}

\* A text that is empty or made of whitespace only.
Blank(t) == \A i \in 1..Len(t) : t[i] \in WhiteSpace

\* C1: every push call has at most one outcome, a completed call has exactly
\* one, every error that escapes push is a TelepushError, and a failure of
\* the transport is never swallowed: the call it failed ends by throwing.
C1_ExactlyOneOutcome ==
  \A c \in Calls :
    /\ Len(outcome[c]) <= 1
    /\ (pc[c] = "done") <=> (Len(outcome[c]) = 1)
    /\ \A i \in 1..Len(outcome[c]) :
         /\ outcome[c][i].kind \in {"return", "throw"}
         /\ outcome[c][i].kind = "throw" => outcome[c][i].error.tp
    /\ transport[c] = "failed" =>
         /\ pc[c] = "done"
         /\ outcome[c][1].kind = "throw"

\* One call failed on a transport error, another returned a result.
C1_Witness ==
  \E c, d \in Calls :
    /\ transport[c] = "failed" /\ pc[c] = "done" /\ outcome[c][1].kind = "throw"
    /\ pc[d] = "done" /\ outcome[d][1].kind = "return"

\* C2: once a push call has completed, on whatever path, the timer it armed
\* is no longer armed.
C2_NoTimerOutlivesCall ==
  \A c \in Calls : pc[c] = "done" => timer[c] # "armed"

\* Every call has completed, one of them with a timer that was armed and
\* cleared on the way out, another with a timer that had fired.
C2_Witness ==
  /\ \A c \in Calls : pc[c] = "done"
  /\ \E c, d \in Calls : timer[c] = "cleared" /\ timer[d] = "fired"

\* C3: the signal of a call is aborted only by the firing of the timer that
\* call armed; the firing of a timer changes nothing of any other call; and a
\* call that armed no timer is never aborted.
C3_CancellationIsLocal ==
  /\ [](\A c \in Calls : /\ aborted[c] => timer[c] = "fired"
                         /\ timer[c] = "none" => ~aborted[c])
  /\ [][\A c \in Calls :
          /\ (aborted'[c] /\ ~aborted[c]) => (timer[c] = "armed" /\ timer'[c] = "fired")
          /\ (timer[c] = "armed" /\ timer'[c] = "fired") =>
               \A d \in Calls \ {c} :
                 /\ aborted'[d] = aborted[d]
                 /\ pc'[d] = pc[d]
                 /\ timer'[d] = timer[d]
                 /\ outcome'[d] = outcome[d]]_vars

\* One call timed out on its own timer while a concurrent call with no timer
\* was in flight, unaborted, and went on to return its result.
C3_Witness ==
  \E c, d \in Calls :
    /\ c # d
    /\ timer[c] = "fired" /\ pc[c] = "done" /\ outcome[c] = <<Thrown(TimedOut)>>
    /\ timer[d] = "none" /\ ~aborted[d] /\ pc[d] = "done"
    /\ outcome[d][1].kind = "return"

\* C4: a push whose text is empty or whitespace only fails with a validation
\* error, issues no request and arms no timer; any other text passes
\* validation and is sent untrimmed as the text of the request body.
C4_BlankTextRejected ==
  \A c \in Calls :
    pc[c] # "idle" =>
      IF Blank(text[c])
        THEN /\ pc[c] = "done"
             /\ Len(outcome[c]) = 1
             /\ outcome[c][1].kind = "throw"
             /\ IsValidationError(outcome[c][1].error)
             /\ requests[c] = <<>>
             /\ timer[c] = "none"
             /\ transport[c] = "idle"
        ELSE /\ Len(requests[c]) = 1
             /\ requests[c][1].body["text"] = text[c]

\* A text of two whitespace characters was rejected, and a text with
\* surrounding whitespace was sent as it is.
C4_Witness ==
  \E c, d \in Calls :
    /\ text[c] = <<" ", "\t">>
    /\ pc[c] = "done"
    /\ outcome[c][1].kind = "throw"
    /\ requests[c] = <<>>
    /\ text[d] = <<" ", "a">>
    /\ Len(requests[d]) = 1
    /\ requests[d][1].body["text"] = <<" ", "a">>

\* The message "HTTP {status}" for the statuses of the model.
HttpText(st) ==
  CASE st = 199 -> "HTTP 199"
    [] st = 200 -> "HTTP 200"
    [] st = 299 -> "HTTP 299"
    [] st = 300 -> "HTTP 300"
    [] st = 400 -> "HTTP 400"

DescriptionOr(d, fallback) ==
  IF d.description = {} THEN fallback ELSE Some(d.description)

\* C5: a decoded response is classified in a fixed order: a status outside
\* 200..299 fails with the description or "HTTP {status}"; else ok = false
\* fails with the description or the generic message; else an absent result
\* fails with the no-result message; else the call succeeds.  Each of the
\* three failures carries the HTTP status and the error_code of the response.
C5_ClassificationOrder ==
  \A c \in Calls :
    data[c] # {} =>
      LET st == Some(status[c])
          d == Some(data[c])
          failure(message) == <<Thrown(TelepushError(message, {st}, d.error_code))>>
      IN /\ pc[c] = "done"
         /\ IF st < 200 \/ st > 299
              THEN outcome[c] = failure(DescriptionOr(d, HttpText(st)))
            ELSE IF d.ok = FALSE
              THEN outcome[c] = failure(DescriptionOr(d, "Telegram API error"))
            ELSE IF d.result = {}
              THEN outcome[c] = failure("Telegram API returned no result")
            ELSE outcome[c][1].kind = "return"

\* A response of status 400 whose body says ok = true and carries a result,
\* but no description, failed with "HTTP 400".
C5_Witness ==
  \E c \in Calls :
    /\ status[c] = {400}
    /\ data[c] # {}
    /\ Some(data[c]).ok
    /\ Some(data[c]).result # {}
    /\ Some(data[c]).error_code = {400}
    /\ outcome[c] = <<Thrown(TelepushError("HTTP 400", {400}, {400}))>>

\* The option of each optional wire key.
WireName ==
  [parse_mode |-> "parseMode",
   disable_notification |-> "disableNotification",
   protect_content |-> "protectContent",
   reply_to_message_id |-> "replyToMessageId",
   message_thread_id |-> "messageThreadId",
   disable_web_page_preview |-> "disableWebPagePreview"]

\* C6: the request body holds chat_id and text always, and each optional wire
\* key exactly when the option is not absent, with the value of the option
\* (an explicit false or 0 included); it holds no other key, so no timeoutMs.
C6_OptionalKeysIffPresent ==
  \A c \in Calls :
    \A i \in 1..Len(requests[c]) :
      LET body == requests[c][i].body
      IN /\ {"chat_id", "text"} \subseteq DOMAIN body
         /\ DOMAIN body \subseteq {"chat_id", "text"} \cup DOMAIN WireName
         /\ body["chat_id"] = Some(client).chatId
         /\ body["text"] = text[c]
         /\ \A k \in DOMAIN WireName :
              /\ (k \in DOMAIN body) <=> (opts[c][WireName[k]] # {})
              /\ (k \in DOMAIN body) => (body[k] = Some(opts[c][WireName[k]]))

\* A request whose options set disableNotification to false and
\* replyToMessageId to 0, and nothing else but a timeout, carries both keys.
C6_Witness ==
  \E c \in Calls :
    /\ Len(requests[c]) = 1
    /\ opts[c].disableNotification = {FALSE}
    /\ opts[c].replyToMessageId = {0}
    /\ opts[c].parseMode = {}
    /\ opts[c].timeoutMs = {10}
    /\ DOMAIN requests[c][1].body =
         {"chat_id", "text", "disable_notification", "reply_to_message_id"}
    /\ requests[c][1].body["disable_notification"] = FALSE

\* C7: whenever push returns, the value returned has the message id and the
\* date of the response's result.
C7_ResultFullyPopulated ==
  \A c \in Calls :
    \A i \in 1..Len(outcome[c]) :
      outcome[c][i].kind = "return" =>
        /\ outcome[c][i].value.message_id # {}
        /\ outcome[c][i].value.date # {}

\* The config has no usable token or no usable target.
BadConfig(k) ==
  \/ k.botToken \in {{}, {""}}
  \/ k.chatId.kind \in {"undefined", "null"}
  \/ (k.chatId.kind = "string" /\ k.chatId.s = "")

\* C8: construction fails with a validation error, creating no client and
\* issuing no request, exactly for the configs whose token is empty or absent
\* or whose target is "", null or absent; for every other config (an integer
\* target of 0 included) the client exists and holds the token, target and
\* defaultTimeoutMs of the config, in every state, so through every push.
C8_ConstructionValidation ==
  cfg # {} =>
    LET k == Some(cfg)
    IN IF BadConfig(k)
         THEN /\ client = {}
              /\ Len(ctorThrown) = 1
              /\ IsValidationError(ctorThrown[1])
              /\ \A c \in Calls : requests[c] = <<>> /\ pc[c] = "idle"
         ELSE /\ ctorThrown = <<>>
              /\ Cardinality(client) = 1
              /\ Some(client).botToken = Some(k.botToken)
              /\ Some(client).chatId = k.chatId
              /\ Some(client).defaultTimeoutMs = k.defaultTimeoutMs

\* A client built with the integer target 0 has completed a push.
C8_Witness ==
  /\ cfg # {}
  /\ Some(cfg).chatId = ChatId("number", "", 0)
  /\ client # {}
  /\ \E c \in Calls : pc[c] = "done" /\ Len(requests[c]) = 1

\* C9: push fails with "Request timed out" only when the timer this call
\* armed has fired and aborted it; when the transport failed for any other
\* reason, in a call with no timer armed included, the message of the error
\* is the message of the underlying cause and never the timeout message.
C9_TimeoutOnlyFromOwnTimer ==
  \A c \in Calls :
    (pc[c] = "done" /\ caught[c] # {} /\ Some(caught[c]).isError /\ ~Some(caught[c]).tp) =>
      IF timer[c] = "fired" /\ aborted[c] /\ transport[c] # "failed"
        THEN outcome[c] = <<Thrown(TimedOut)>>
        ELSE /\ outcome[c] = <<Thrown(TelepushError(Some(caught[c]).message, {}, {}))>>
             /\ outcome[c][1].error.message # "Request timed out"

\* The effective timeout of call c as the claim defines it.
ClaimedTimeout(c) ==
  IF opts[c].timeoutMs # {} THEN opts[c].timeoutMs
  ELSE Some(client).defaultTimeoutMs

\* C10: a call arms a timer exactly when its text passed validation and its
\* effective timeout (options.timeoutMs when present, else defaultTimeoutMs)
\* is positive; an armed timer leads to the completion of the call, and a call
\* that completed with a timer and no answer from the transport failed with
\* "Request timed out"; a call with no timer leaves its await only when the
\* transport responds or fails.
C10_TimeoutArmedAndFires ==
  /\ [](\A c \in Calls :
          pc[c] # "idle" =>
            ((timer[c] # "none") <=>
               (/\ ~Blank(text[c])
                /\ ClaimedTimeout(c) # {}
                /\ Some(ClaimedTimeout(c)) > 0)))
  /\ \A c \in Calls : (timer[c] = "armed") ~> (pc[c] = "done")
  /\ [](\A c \in Calls :
          (pc[c] = "done" /\ timer[c] # "none" /\ transport[c] \in {"pending", "responded"})
            => outcome[c] = <<Thrown(TimedOut)>>)
  /\ [][\A c \in Calls :
          (timer[c] = "none" /\ pc[c] \in {"fetching", "decoding"} /\ pc'[c] # pc[c])
            => transport'[c] # transport[c]]_vars

\* A call that armed a timer and got no answer from the transport has
\* completed with the timeout error, its options giving a timeout although the
\* client has a default.
C10_Witness ==
  \E c \in Calls :
    /\ client # {}
    /\ Some(client).defaultTimeoutMs = {20}
    /\ opts[c].timeoutMs = {10}
    /\ timer[c] = "fired"
    /\ transport[c] = "pending"
    /\ pc[c] = "done"
    /\ outcome[c] = <<Thrown(TimedOut)>>
====
